---- MODULE Spec2Model ----
(***************************************************************************)
(* Model of ncbiTaxonomyTree.py: the construction of NcbiTaxonomyTree from *)
(* names.dmp / nodes.dmp (NcbiTaxonomyTree.__init__) and the lineage,      *)
(* descendant and leaf queries over the built dictionary self.dic.         *)
(***************************************************************************)
EXTENDS Integers, Sequences, FiniteSets, TLC

\* ------------------------------------------------------------------ bounds
\* Taxids range over 1..MaxId.
MaxId == 3
\* Longest nodes.dmp (in lines) of the unrestricted input space.
MaxLines == 3
\* Longest lineage the model lets the ascendant walk build.
MaxWalk == 5
\* Stands for the interpreter's recursion limit (RecursionError beyond it).
MaxDepth == 5

\* ------------------------------------------------------- program constants
\* The taxid the constructor finalises as the root (self.dic[1]).
Root == 1
\* Python's None in an integer field (parent=None).
None == 0
\* Python's None in a string field (rank=None).
NoneRank == "None"

standard_ranks ==
    <<"species", "genus", "family", "order", "class", "phylum", "superkingdom">>

\* Ranks the well-formed inputs draw from: a standard rank, "no rank", and a
\* rank that is neither.
Ranks == {"species", "no rank", "subspecies"}

Taxids == 1..MaxId

\* Scientific names of the name stream (field 1 of a names.dmp line).
NameTable ==
    <<"root", "Bacteria", "Escherichia", "Escherichia coli",
      "Enterobacteriaceae", "Proteobacteria", "Archaea", "Eukaryota">>
ScientificName(i) == NameTable[i]

VARIABLES
    names_file,   \* taxids that have a "scientific name" line in names.dmp
    nodes_file,   \* nodes.dmp: sequence of [taxid, parent, rank] lines
    taxid2name,   \* the temporary mapping taxid -> name
    dic,          \* self.dic: taxid -> Node(name, rank, parent, children)
    pos,          \* number of the next line of nodes.dmp
    line,         \* the line of nodes.dmp read last
    phase,        \* "names", "nodes", "built", "failed"
    query,        \* the call in progress or last made
    result,       \* what the last call returned or raised
    taxid,        \* cursor of the ascendant walk
    lineage       \* lineage the ascendant walk has built so far

vars == <<names_file, nodes_file, taxid2name, dic, pos, line, phase,
          query, result, taxid, lineage>>

\* ----------------------------------------------------------- dictionaries
EmptyDict == [i \in {} |-> None]
Put(d, k, v) == [i \in (DOMAIN d) \cup {k} |-> IF i = k THEN v ELSE d[i]]
Del(d, k) == [i \in (DOMAIN d) \ {k} |-> d[i]]

Node(name, rank, parent, children) ==
    [name |-> name, rank |-> rank, parent |-> parent, children |-> children]

Range(s) == {s[i] : i \in DOMAIN s}
Count(x, s) == Cardinality({i \in DOMAIN s : s[i] = x})

\* ------------------------------------------------------------ construction
\* names.dmp parsing: the lines whose class is "scientific name" give
\* taxid2name[taxid] = name.
ParseNamesFile(named) == [i \in named |-> ScientificName(i)]

\* Mutant of LookupName: a lookup with a default (taxid2name.get(taxid, ""))
\* in place of the indexing that raises.
LookupNameDefault(t2n, t) ==
    [ok |-> TRUE, name |-> IF t \in DOMAIN t2n THEN t2n[t] ELSE ""]

\* taxid2name[taxid]: the name, or KeyError.
LookupName(t2n, t) ==
    IF t \in DOMAIN t2n THEN [ok |-> TRUE, name |-> t2n[t]]
    ELSE [ok |-> FALSE, name |-> ""]

\* Mutant of Promote: the node is rebuilt with an empty children list.
PromoteResetsChildren(node, rank, parent) ==
    [name |-> node.name, rank |-> rank, parent |-> parent, children |-> <<>>]

\* self.dic[taxid]._replace(rank=..., parent=...): name and children kept.
Promote(node, rank, parent) ==
    Node(node.name, rank, parent, node.children)

\* Node(name=taxid2name[taxid], rank=..., parent=..., children=[])
NewNode(name, rank, parent) == Node(name, rank, parent, <<>>)

\* Mutant of Placeholder: the placeholder is created without the child.
PlaceholderEmpty(name, child) ==
    [name |-> name, rank |-> NoneRank, parent |-> None, children |-> <<>>]

\* Node(name=taxid2name[parent_taxid], rank=None, parent=None, children=[taxid])
Placeholder(name, child) == Node(name, NoneRank, None, <<child>>)

\* self.dic[parent_taxid].children.append(taxid)
AppendChild(node, child) ==
    Node(node.name, node.rank, node.parent, Append(node.children, child))

\* First half of the loop body: the line's own node is promoted or created.
\* Gives [ok, dic, taxid2name]; ok = FALSE is the KeyError of taxid2name[taxid].
OwnNode(d, t2n, l) ==
    IF l.taxid \in DOMAIN d
    THEN [ok |-> TRUE,
          dic |-> Put(d, l.taxid, Promote(d[l.taxid], l.rank, l.parent)),
          taxid2name |-> t2n]
    ELSE LET n == LookupName(t2n, l.taxid) IN
         IF n.ok
         THEN [ok |-> TRUE,
               dic |-> Put(d, l.taxid, NewNode(n.name, l.rank, l.parent)),
               taxid2name |-> Del(t2n, l.taxid)]
         ELSE [ok |-> FALSE, dic |-> d, taxid2name |-> t2n]

\* Second half: the child is appended to its parent, or the parent is created
\* as a placeholder.  ok = FALSE is the KeyError of taxid2name[parent_taxid].
ParentNode(d, t2n, l) ==
    IF l.parent \in DOMAIN d
    THEN [ok |-> TRUE,
          dic |-> Put(d, l.parent, AppendChild(d[l.parent], l.taxid)),
          taxid2name |-> t2n]
    ELSE LET n == LookupName(t2n, l.parent) IN
         IF n.ok
         THEN [ok |-> TRUE,
               dic |-> Put(d, l.parent, Placeholder(n.name, l.taxid)),
               taxid2name |-> Del(t2n, l.parent)]
         ELSE [ok |-> FALSE, dic |-> d, taxid2name |-> t2n]

\* One iteration of the nodes.dmp loop.
ProcessLine(d, t2n, l) ==
    LET own == OwnNode(d, t2n, l) IN
    IF own.ok THEN ParentNode(own.dic, own.taxid2name, l) ELSE own

\* list.remove(x): the first occurrence of x is dropped.
RECURSIVE Remove(_, _)
Remove(s, x) ==
    IF s = <<>> THEN <<>>
    ELSE IF Head(s) = x THEN Tail(s)
    ELSE <<Head(s)>> \o Remove(Tail(s), x)

\* Mutant of FinalRoot: the root is not removed from its own children.
FinalRootKeepsSelf(node) ==
    [name |-> node.name, rank |-> node.rank, parent |-> None,
     children |-> node.children]

\* Mutant of FinalRoot: the root keeps the parent its line gave it.
FinalRootKeepsParent(node) ==
    [name |-> node.name, rank |-> node.rank, parent |-> node.parent,
     children |-> Remove(node.children, Root)]

\* self.dic[1]._replace(parent=None, children=root_children)
FinalRoot(node) ==
    Node(node.name, node.rank, None, Remove(node.children, Root))

\* The statements after the loop.  ok = FALSE is the KeyError of self.dic[1]
\* or the ValueError of root_children.remove(1).
Finalize(d) ==
    IF Root \in DOMAIN d /\ Root \in Range(d[Root].children)
    THEN [ok |-> TRUE, dic |-> Put(d, Root, FinalRoot(d[Root]))]
    ELSE [ok |-> FALSE, dic |-> d]

NoLine == [taxid |-> None, parent |-> None, rank |-> NoneRank]
NoQuery == [op |-> "none", taxid |-> None, only_std_ranks |-> FALSE]
NoResult == [status |-> "none", value |-> <<>>]

ParseNames ==
    /\ phase = "names"
    /\ taxid2name' = ParseNamesFile(names_file)
    /\ dic' = EmptyDict
    /\ phase' = "nodes"
    /\ UNCHANGED <<names_file, nodes_file, pos, line, query, result, taxid,
                   lineage>>

\* The effect of reading one line of nodes.dmp.
ReadLine(l) ==
    LET r == ProcessLine(dic, taxid2name, l) IN
    /\ line' = l
    /\ dic' = r.dic
    /\ taxid2name' = r.taxid2name
    /\ pos' = pos + 1
    /\ phase' = IF r.ok THEN "nodes" ELSE "failed"
    /\ UNCHANGED <<names_file, nodes_file, query, result, taxid, lineage>>

\* The loop over a nodes.dmp given up front.
NodesLine ==
    /\ phase = "nodes"
    /\ pos <= Len(nodes_file)
    /\ ReadLine(nodes_file[pos])

\* The loop over a nodes.dmp of which nothing is assumed: any line may come.
NodesLineAny ==
    /\ phase = "nodes"
    /\ pos <= MaxLines
    /\ \E t \in Taxids, p \in Taxids :
          ReadLine([taxid |-> t, parent |-> p, rank |-> "no rank"])

\* End of nodes.dmp: the root is finalised and the constructor returns, or
\* raises.
RootFinalize ==
    /\ phase = "nodes"
    /\ pos > Len(nodes_file)
    /\ LET r == Finalize(dic) IN
          /\ dic' = r.dic
          /\ phase' = IF r.ok THEN "built" ELSE "failed"
    /\ UNCHANGED <<names_file, nodes_file, taxid2name, pos, line, query,
                   result, taxid, lineage>>

\* ------------------------------------------------------------------ queries
\* getChildren([taxid])[taxid]
getChildren(d, t) == d[t].children

\* Node(taxid=..., rank=self.dic[taxid].rank, name=self.dic[taxid].name)
LNode(d, t) == [taxid |-> t, rank |-> d[t].rank, name |-> d[t].name]

RECURSIVE SelectStd(_)
\* [lvl for lvl in lineage if lvl.rank in self.standard_ranks]
SelectStd(lin) ==
    IF lin = <<>> THEN <<>>
    ELSE IF Head(lin).rank \in Range(standard_ranks)
         THEN <<Head(lin)>> \o SelectStd(Tail(lin))
         ELSE SelectStd(Tail(lin))

\* Mutant of StdLineage: the 'no rank' test reads the last entry of the lineage
\* (lastlevel = -1) instead of the first.
StdLineageLastLevel(lin) ==
    IF lin[Len(lin)].rank = "no rank" THEN <<lin[Len(lin)]>> \o SelectStd(lin)
    ELSE SelectStd(lin)

\* The only_std_ranks branch: the standard-rank entries, with the first entry
\* of the lineage put in front when its rank is 'no rank'.
StdLineage(lin) ==
    IF lin[1].rank = "no rank" THEN <<lin[1]>> \o SelectStd(lin)
    ELSE SelectStd(lin)

\* A Python value that is an int or a (nested) list: what _getDescendants and
\* _getLeaves return.  err carries an exception raised while building it.
PyInt(n) == [isList |-> FALSE, int |-> n, items |-> <<>>, err |-> ""]
PyList(s) == [isList |-> TRUE, int |-> None, items |-> s, err |-> ""]
PyRaise(e) == [isList |-> FALSE, int |-> None, items |-> <<>>, err |-> e]

\* The first exception among the values of a sequence, "" when there is none.
FirstErr(s) ==
    IF \E i \in DOMAIN s : s[i].err # ""
    THEN s[CHOOSE i \in DOMAIN s :
              s[i].err # "" /\ \A j \in 1..(i - 1) : s[j].err = ""].err
    ELSE ""

\* list.insert(0, x)
InsertFront(s, x) == <<x>> \o s

RECURSIVE _getDescendants(_, _, _)
\* self._getDescendants(taxid); depth counts the nested calls.
_getDescendants(d, t, depth) ==
    IF depth > MaxDepth THEN PyRaise("RecursionError")
    ELSE IF t \notin DOMAIN d THEN PyRaise("KeyError")
    ELSE LET children == d[t].children IN
         IF children # <<>>
         THEN LET sub == [i \in DOMAIN children |->
                             _getDescendants(d, children[i], depth + 1)] IN
              IF FirstErr(sub) # "" THEN PyRaise(FirstErr(sub))
              ELSE PyList(InsertFront(sub, PyInt(t)))
         ELSE PyInt(t)

RECURSIVE _getLeaves(_, _, _)
\* _getLeaves(taxid) of getLeaves
_getLeaves(d, t, depth) ==
    IF depth > MaxDepth THEN PyRaise("RecursionError")
    ELSE IF t \notin DOMAIN d THEN PyRaise("KeyError")
    ELSE LET children == d[t].children IN
         IF children # <<>>
         THEN LET sub == [i \in DOMAIN children |->
                             _getLeaves(d, children[i], depth + 1)] IN
              IF FirstErr(sub) # "" THEN PyRaise(FirstErr(sub))
              ELSE PyList(sub)
         ELSE PyInt(t)

RECURSIVE FlattenItems(_)
\* The loop of flatten over the elements of a list: a list element is
\* flattened in turn, any other is appended.
FlattenItems(items) ==
    IF items = <<>> THEN <<>>
    ELSE LET elt == Head(items) IN
         (IF elt.isList THEN FlattenItems(elt.items) ELSE <<elt.int>>)
            \o FlattenItems(Tail(items))

\* flatten(seq): iterating over an int raises TypeError.
flatten(seq) ==
    IF seq.err # "" THEN [status |-> seq.err, value |-> <<>>]
    ELSE IF ~seq.isList THEN [status |-> "TypeError", value |-> <<>>]
    ELSE [status |-> "ok", value |-> FlattenItems(seq.items)]

\* getDescendants([taxid])[taxid]
getDescendants(d, t) == flatten(_getDescendants(d, t, 0))

\* getDescendantsWithRanksAndNames([taxid])[taxid]: the comprehension runs
\* over what _getDescendants returned, unflattened; iterating over an int and
\* indexing self.dic by a list both raise TypeError.
getDescendantsWithRanksAndNames(d, t) ==
    LET r == _getDescendants(d, t, 0) IN
    IF r.err # "" THEN [status |-> r.err, value |-> <<>>]
    ELSE IF ~r.isList THEN [status |-> "TypeError", value |-> <<>>]
    ELSE IF \E i \in DOMAIN r.items : r.items[i].isList
         THEN [status |-> "TypeError", value |-> <<>>]
    ELSE [status |-> "ok",
          value |-> [i \in DOMAIN r.items |-> LNode(d, r.items[i].int)]]

\* getLeaves(taxid): a result that is not Iterable is wrapped, any other is
\* flattened.
getLeaves(d, t) ==
    LET r == _getLeaves(d, t, 0) IN
    IF r.err # "" THEN [status |-> r.err, value |-> <<>>]
    ELSE IF ~r.isList THEN [status |-> "ok", value |-> <<r.int>>]
    ELSE flatten(r)

\* The constructor has returned the tree and no call is in progress.
Idle == phase = "built" /\ query = NoQuery

\* getAscendantsWithRanksAndNames([x], only_std_ranks): entry, up to the loop.
AscendStart ==
    /\ Idle
    /\ \E x \in Taxids, std \in BOOLEAN :
          /\ query' = [op |-> "getAscendantsWithRanksAndNames", taxid |-> x,
                       only_std_ranks |-> std]
          /\ IF x \in DOMAIN dic
             THEN /\ taxid' = x
                  /\ lineage' = <<LNode(dic, x)>>
                  /\ result' = [status |-> "running", value |-> <<>>]
             ELSE /\ taxid' = None
                  /\ lineage' = <<>>
                  /\ result' = [status |-> "KeyError", value |-> <<>>]
    /\ UNCHANGED <<names_file, nodes_file, taxid2name, dic, pos, line, phase>>

\* One iteration of `while self.dic[taxid].parent is not None`.
AscendStep ==
    /\ result.status = "running"
    /\ dic[taxid].parent # None
    /\ Len(lineage) < MaxWalk
    /\ LET parent == dic[taxid].parent IN
       IF parent \in DOMAIN dic
       THEN /\ taxid' = parent
            /\ lineage' = Append(lineage, LNode(dic, parent))
            /\ UNCHANGED result
       ELSE /\ taxid' = parent
            /\ result' = [status |-> "KeyError", value |-> <<>>]
            /\ UNCHANGED lineage
    /\ UNCHANGED <<names_file, nodes_file, taxid2name, dic, pos, line, phase,
                   query>>

\* The loop exits at a node without parent; the lineage is filtered on
\* request and returned.
AscendReturn ==
    /\ result.status = "running"
    /\ dic[taxid].parent = None
    /\ result' = [status |-> "ok",
                  value |-> IF query.only_std_ranks THEN StdLineage(lineage)
                            ELSE lineage]
    /\ UNCHANGED <<names_file, nodes_file, taxid2name, dic, pos, line, phase,
                   query, taxid, lineage>>

\* A call that runs to its end in one step.
Call(op, x, res) ==
    /\ Idle
    /\ query' = [op |-> op, taxid |-> x, only_std_ranks |-> FALSE]
    /\ result' = res
    /\ taxid' = None
    /\ lineage' = <<>>
    /\ UNCHANGED <<names_file, nodes_file, taxid2name, dic, pos, line, phase>>

GetDescendants ==
    \E x \in Taxids : Call("getDescendants", x, getDescendants(dic, x))

GetDescendantsWithRanksAndNames ==
    \E x \in Taxids :
        Call("getDescendantsWithRanksAndNames", x,
             getDescendantsWithRanksAndNames(dic, x))

GetLeaves ==
    \E x \in Taxids : Call("getLeaves", x, getLeaves(dic, x))

\* The caller takes the value returned, or the exception raised, and is free
\* to make the next call.
Return ==
    /\ result.status \notin {"none", "running"}
    /\ query' = NoQuery
    /\ result' = NoResult
    /\ taxid' = None
    /\ lineage' = <<>>
    /\ UNCHANGED <<names_file, nodes_file, taxid2name, dic, pos, line, phase>>

Queries ==
    \/ AscendStart
    \/ AscendStep
    \/ AscendReturn
    \/ GetDescendants
    \/ GetDescendantsWithRanksAndNames
    \/ GetLeaves
    \/ Return

\* ----------------------------------------------------------- specifications
\* nodes.dmp files that keep the input contract: one line per taxid, the root
\* line (1, 1), every parent a taxid of the file, no cycle but the root's.
RECURSIVE ReachesRoot(_, _, _)
ReachesRoot(par, t, fuel) ==
    IF t = Root THEN TRUE
    ELSE IF fuel = 0 THEN FALSE
    ELSE ReachesRoot(par, par[t], fuel - 1)

Injective(f) == \A i, j \in DOMAIN f : f[i] = f[j] => i = j

InitCommon ==
    /\ taxid2name = EmptyDict
    /\ dic = EmptyDict
    /\ pos = 1
    /\ line = NoLine
    /\ phase = "names"
    /\ query = NoQuery
    /\ result = NoResult
    /\ taxid = None
    /\ lineage = <<>>

Init ==
    /\ \E S \in SUBSET Taxids :
          /\ Root \in S
          /\ \E par \in [S -> S] :
                /\ par[Root] = Root
                /\ \A t \in S : ReachesRoot(par, t, MaxId)
                /\ \E order \in [1..Cardinality(S) -> S] :
                      /\ Injective(order)
                      /\ \E rk \in [S -> Ranks] :
                            nodes_file =
                                [i \in 1..Cardinality(S) |->
                                    [taxid |-> order[i],
                                     parent |-> par[order[i]],
                                     rank |-> rk[order[i]]]]
          /\ names_file = S
    /\ InitCommon

Next ==
    \/ ParseNames
    \/ NodesLine
    \/ RootFinalize
    \/ Queries

Spec == Init /\ [][Next]_vars

\* Any names.dmp and any nodes.dmp of at most MaxLines lines, read line by
\* line.
InitAny ==
    /\ names_file \in SUBSET Taxids
    /\ nodes_file = <<>>
    /\ InitCommon

NextAny ==
    \/ ParseNames
    \/ NodesLineAny
    \/ RootFinalize
    \/ Queries

SpecAny == InitAny /\ [][NextAny]_vars

\* ------------------------------------------------------------- properties
Built == phase = "built"

Last(s) == s[Len(s)]

\* The lines of a file in ascending order of taxid (one line per taxid).
RECURSIVE SortedLines(_)
SortedLines(f) ==
    IF f = <<>> THEN <<>>
    ELSE LET m == CHOOSE i \in DOMAIN f :
                      \A j \in DOMAIN f : f[i].taxid <= f[j].taxid
             rest == [k \in 1..(Len(f) - 1) |-> IF k < m THEN f[k] ELSE f[k + 1]]
         IN <<f[m]>> \o SortedLines(rest)

\* The whole construction run on a file: the loop, then the finalisation.
RECURSIVE BuildLoop(_, _, _)
BuildLoop(d, t2n, f) ==
    IF f = <<>> THEN [ok |-> TRUE, dic |-> d, taxid2name |-> t2n]
    ELSE LET r == ProcessLine(d, t2n, Head(f)) IN
         IF r.ok THEN BuildLoop(r.dic, r.taxid2name, Tail(f)) ELSE r

Build(named, f) ==
    LET r == BuildLoop(EmptyDict, ParseNamesFile(named), f) IN
    IF r.ok THEN Finalize(r.dic) ELSE [ok |-> FALSE, dic |-> r.dic]

\* Same ids, and per id the same name, rank, parent and set of children.
SameTree(a, b) ==
    /\ DOMAIN a = DOMAIN b
    /\ \A t \in DOMAIN a :
          /\ a[t].name = b[t].name
          /\ a[t].rank = b[t].rank
          /\ a[t].parent = b[t].parent
          /\ Range(a[t].children) = Range(b[t].children)
          /\ Len(a[t].children) = Len(b[t].children)

\* The preorder sequence of the subtree of t, by definition: t, then the
\* preorder sequence of each child in child-list order.
RECURSIVE Preorder(_, _)
RECURSIVE PreorderAll(_, _)
Preorder(d, t) == <<t>> \o PreorderAll(d, d[t].children)
PreorderAll(d, cs) ==
    IF cs = <<>> THEN <<>>
    ELSE Preorder(d, Head(cs)) \o PreorderAll(d, Tail(cs))

NoRepeat(lin) ==
    \A i, j \in DOMAIN lin : lin[i].taxid = lin[j].taxid => i = j

SevenRanks ==
    {"species", "genus", "family", "order", "class", "phylum", "superkingdom"}

\* The indices of a lineage that the standard-rank filter keeps.
Kept(lin) ==
    {i \in DOMAIN lin :
        lin[i].rank \in SevenRanks \/ (i = 1 /\ lin[1].rank = "no rank")}

\* s is the subsequence of lin at the indices K, in order.
IsRestriction(s, lin, K) ==
    /\ Len(s) = Cardinality(K)
    /\ \A i \in K : s[Cardinality({j \in K : j <= i})] = lin[i]

Ascending == query.op = "getAscendantsWithRanksAndNames"

\* C1: once the constructor has returned, exactly one node has parent None,
\* it is the root (taxid 1), and the root's taxid is in no children list, the
\* root's own included.
C1_SingleRoot ==
    Built =>
        /\ {t \in DOMAIN dic : dic[t].parent = None} = {Root}
        /\ \A t \in DOMAIN dic : Root \notin Range(dic[t].children)

\* C1 witness: a tree of several nodes is built whose root line was not the
\* first line, so that the root was first created as a placeholder.
C1_Witness ==
    /\ Built
    /\ Cardinality(DOMAIN dic) >= 3
    /\ nodes_file[1].taxid # Root
    /\ nodes_file[1].parent = Root

\* C2: once the constructor has returned, every node but the root occurs
\* exactly once in getChildren of its parent.
C2_ChildOfParentOnce ==
    Built =>
        \A n \in (DOMAIN dic) \ {Root} :
            /\ dic[n].parent \in DOMAIN dic
            /\ Count(n, getChildren(dic, dic[n].parent)) = 1

\* C2 witness: a built tree in which one parent had its line before a child's
\* line, and another got its own line only after a child was attached to the
\* placeholder made for it.
C2_Witness ==
    /\ Built
    /\ \E i, j \in DOMAIN nodes_file :
          /\ i < j
          /\ nodes_file[i].parent = nodes_file[j].taxid
          /\ nodes_file[j].taxid # Root
    /\ \E i, j \in DOMAIN nodes_file :
          /\ i < j
          /\ nodes_file[j].parent = nodes_file[i].taxid
          /\ nodes_file[i].taxid # nodes_file[j].taxid

\* C3: whatever the order of the lines of a file that has one line per taxid
\* and the root line (1, 1), construction succeeds and the tree built has the
\* ids, names, ranks, parents and children sets of the tree built from the
\* same lines in ascending order of taxid.
C3_OrderIndependent ==
    /\ [](phase # "failed")
    /\ [][(phase = "nodes" /\ phase' = "built") =>
             LET ref == Build(names_file, SortedLines(nodes_file)) IN
             ref.ok /\ SameTree(dic', ref.dic)]_vars

\* C3 witness: a tree built from lines that were not in ascending order, a
\* child's line before its parent's, whose children lists are ordered
\* otherwise than those of the tree built from the sorted lines.
C3_Witness ==
    /\ Built
    /\ nodes_file # SortedLines(nodes_file)
    /\ \E i, j \in DOMAIN nodes_file :
          i < j /\ nodes_file[i].parent = nodes_file[j].taxid
    /\ dic # Build(names_file, SortedLines(nodes_file)).dic

\* C4: the walk of getAscendantsWithRanksAndNames([x]) on a built tree never
\* raises, never visits a taxid twice and is never longer than the tree has
\* nodes, can always take its next step until it returns, and so terminates;
\* the lineage starts with x, and the lineage returned ends with the root and
\* has one entry when x is the root.
C4_AscendantWalk ==
    (Ascending /\ query.taxid \in DOMAIN dic) =>
        /\ result.status \in {"running", "ok"}
        /\ lineage # <<>>
        /\ lineage[1].taxid = query.taxid
        /\ Last(lineage).taxid = taxid
        /\ NoRepeat(lineage)
        /\ Len(lineage) <= Cardinality(DOMAIN dic)
        /\ result.status = "running" => ENABLED (AscendStep \/ AscendReturn)
        /\ result.status = "ok" =>
              /\ Last(lineage).taxid = Root
              /\ query.taxid = Root => Len(lineage) = 1
              /\ ~query.only_std_ranks => result.value = lineage

\* C4 witness: the walk from a node two levels below the root has returned a
\* lineage of three entries.
C4_Witness ==
    /\ Ascending
    /\ result.status = "ok"
    /\ ~query.only_std_ranks
    /\ Len(result.value) = 3
    /\ result.value[1].taxid = query.taxid
    /\ result.value[3].taxid = Root

\* C5: a walk of getAscendantsWithRanksAndNames that comes back to a taxid
\* it has already visited (the parent relation has a cycle) has raised
\* an error; it is not still walking.
C5_CycleWalkFails ==
    (Ascending /\ ~NoRepeat(lineage)) => result.status \notin {"running", "ok"}

\* C6: getDescendants([x])[x] is, for every x in the tree, the preorder
\* sequence of the subtree of x.
C6_DescendantsPreorder ==
    (Built /\ query.op = "getDescendants" /\ query.taxid \in DOMAIN dic) =>
        result = [status |-> "ok", value |-> Preorder(dic, query.taxid)]

\* C7: getDescendantsWithRanksAndNames([x])[x] has, for every x in the
\* tree, the length of getDescendants([x])[x], and its i-th entry is the
\* i-th taxid of that sequence with the rank and name of that node.
C7_DescendantsWithRanksAndNames ==
    (Built /\ query.op = "getDescendantsWithRanksAndNames"
           /\ query.taxid \in DOMAIN dic) =>
        LET g == getDescendants(dic, query.taxid) IN
        /\ result.status = "ok"
        /\ g.status = "ok"
        /\ Len(result.value) = Len(g.value)
        /\ \A i \in DOMAIN result.value :
              result.value[i] = [taxid |-> g.value[i],
                                 rank |-> dic[g.value[i]].rank,
                                 name |-> dic[g.value[i]].name]

\* C8: for every x in the tree the set of getLeaves(x) is the set of the
\* taxids of getDescendants([x])[x] that have no children.
C8_LeavesOfDescendants ==
    (Built /\ query.op = "getLeaves" /\ query.taxid \in DOMAIN dic) =>
        LET g == getDescendants(dic, query.taxid) IN
        /\ result.status = "ok"
        /\ g.status = "ok"
        /\ Range(result.value) =
              {t \in Range(g.value) : dic[t].children = <<>>}

\* C9: with only_std_ranks the lineage returned is the unfiltered lineage
\* restricted, in order, to the entries whose rank is one of the seven
\* standard ranks, and to the first entry when the rank of x is "no rank".
C9_OnlyStdRanks ==
    (Ascending /\ query.only_std_ranks /\ result.status = "ok") =>
        IsRestriction(result.value, lineage, Kept(lineage))

\* C9 witness: a filtered lineage was returned for a node of rank "no rank"
\* that has an ancestor of rank "no rank", which was dropped, and an ancestor
\* of a standard rank, which was kept.
C9_Witness ==
    /\ Ascending
    /\ query.only_std_ranks
    /\ result.status = "ok"
    /\ lineage[1].rank = "no rank"
    /\ \E i \in 2..Len(lineage) : lineage[i].rank = "no rank"
    /\ \E i \in 2..Len(lineage) : lineage[i].rank \in SevenRanks
    /\ Len(result.value) = 2

\* C10: a line of nodes.dmp whose taxid is not yet in the tree and has no
\* scientific name in names.dmp makes the constructor fail at that line; a
\* failed construction stays failed, and no call is ever made on its tree.
C10_MissingNameAborts ==
    /\ [][(phase = "nodes" /\ pos' = pos + 1
             /\ line'.taxid \notin DOMAIN dic
             /\ line'.taxid \notin names_file)
          => (phase' = "failed" /\ dic' = dic)]_vars
    /\ [][phase = "failed" => phase' = "failed"]_vars
    /\ [](phase = "failed" => (query = NoQuery /\ result = NoResult))

\* C10 witness: the constructor has failed on a line, after earlier lines
\* were read successfully, whose taxid is new and has no name.
C10_Witness ==
    /\ phase = "failed"
    /\ pos > 2
    /\ line.taxid \notin DOMAIN dic
    /\ line.taxid \notin names_file
    /\ dic # EmptyDict

====
